---- MODULE Spec2Model ----
(***************************************************************************)
(* Fridge AI backend (src/main.py) and its Streamlit front end             *)
(* (src/streamlit_app.py).                                                 *)
(*                                                                         *)
(* Python values are modelled with their run-time type: a value is a       *)
(* record [type, val]; a str is the sequence of its character codes, so    *)
(* that str.lower() and the ordering of sorted() are computed, not         *)
(* assumed.  Floats are hundredths (0.05 is 5, 1.0 is 100).                *)
(***************************************************************************)
EXTENDS Integers, Sequences, FiniteSets, TLC

VARIABLES
    RECIPE_DB,        \* main.py: the module-level recipe table
    detected_items,   \* argument of the last compute_recipe_suggestions call
    result,           \* outcome of the last compute_recipe_suggestions call
    repeat,           \* how the last call compares with the call before it
    OPENAI_API_KEY,   \* main.py: read from the environment at import
    request,          \* the HTTP request being answered
    gateway,          \* the call made to an external gateway while answering
    response,         \* the HTTP response to the request
    session,          \* streamlit_app.py: st.session_state
    final_items,      \* the items of the last "Generate recipes" click
    message           \* the notice the page showed last

----------------------------------------------------------------------------
(* Python values *)

Str(s) == [type |-> "str", val |-> s]

\* a list object used where a name is expected: not hashable
EmptyList == [type |-> "list", val |-> <<>>]

\* None: hashable, equal to no str
None == [type |-> "NoneType", val |-> <<>>]

Hashable(v) == v.type # "list"

Range(seq) == {seq[i] : i \in DOMAIN seq}

Reverse(seq) == [i \in DOMAIN seq |-> seq[Len(seq) + 1 - i]]

\* str.lower() on ASCII text
Lower(v) ==
    [type |-> v.type,
     val |-> [i \in DOMAIN v.val |->
                 IF v.val[i] \in 65..90 THEN v.val[i] + 32 ELSE v.val[i]]]

\* str < str: lexicographic on code points
RECURSIVE SeqLess(_, _)
SeqLess(a, b) ==
    IF a = <<>> THEN b # <<>>
    ELSE IF b = <<>> THEN FALSE
    ELSE IF Head(a) # Head(b) THEN Head(a) < Head(b)
    ELSE SeqLess(Tail(a), Tail(b))

StrLess(x, y) == SeqLess(x.val, y.val)

\* sorted(list(S)) for a set S of str: ascending
RECURSIVE SortedAscMut(_)
SortedAscMut(S) ==
    IF S = {} THEN <<>>
    ELSE LET m == CHOOSE x \in S : \A y \in S \ {x} : StrLess(y, x)
         IN  <<m>> \o SortedAscMut(S \ {m})

RECURSIVE SortedAsc(_)
SortedAsc(S) ==
    IF S = {} THEN <<>>
    ELSE LET m == CHOOSE x \in S : \A y \in S \ {x} : StrLess(x, y)
         IN  <<m>> \o SortedAsc(S \ {m})

----------------------------------------------------------------------------
(* Ingredient names, as the str literals of the sources *)

bread   == Str(<<98, 114, 101, 97, 100>>)
cheese  == Str(<<99, 104, 101, 101, 115, 101>>)
tomato  == Str(<<116, 111, 109, 97, 116, 111>>)
lettuce == Str(<<108, 101, 116, 116, 117, 99, 101>>)
egg     == Str(<<101, 103, 103>>)
butter  == Str(<<98, 117, 116, 116, 101, 114>>)
garlic  == Str(<<103, 97, 114, 108, 105, 99>>)
shrimp  == Str(<<115, 104, 114, 105, 109, 112>>)
pasta   == Str(<<112, 97, 115, 116, 97>>)

\* names that are in no recipe
durian  == Str(<<100, 117, 114, 105, 97, 110>>)
Bread   == Str(<<66, 114, 101, 97, 100>>)
CHEESE  == Str(<<67, 72, 69, 69, 83, 69>>)

\* RECIPE_DB as written in main.py
Catalog ==
    << [name |-> "Tomato Mozzarella Sandwich",
        ingredients |-> <<bread, cheese, tomato, lettuce>>,
        steps |-> <<"Slice the bread and toast if desired.",
                    "Wash and slice tomatoes and lettuce.",
                    "Layer cheese, tomato, and lettuce on the bread.",
                    "Season with salt, pepper and a bit of oil or butter.">>],
       [name |-> "Simple Cheese Omelette",
        ingredients |-> <<egg, cheese, butter>>,
        steps |-> <<"Beat the eggs in a bowl.",
                    "Melt butter in a pan.",
                    "Pour in the eggs and let them set.",
                    "Add cheese, fold and cook briefly.">>],
       [name |-> "Garlic Bread",
        ingredients |-> <<bread, butter, garlic>>,
        steps |-> <<"Preheat the oven.",
                    "Mix butter with minced garlic.",
                    "Spread the mixture on the bread.",
                    "Bake until golden brown.">>],
       [name |-> "Shrimp Pasta",
        ingredients |-> <<shrimp, garlic, butter, pasta, cheese>>,
        steps |-> <<"Cook pasta in salted water until al dente.",
                    "Heat butter and garlic in a pan.",
                    "Sear the shrimp briefly.",
                    "Add pasta, toss, sprinkle with cheese and serve.">>] >>

----------------------------------------------------------------------------
(* compute_recipe_suggestions, main.py 187-214 *)

\* a detected item: {"name": ..., "score": ...}
Item(name, score) == [name |-> name, score |-> score]

Returned(v) == [raised |-> "none", returned |-> v]
Raised(e)   == [raised |-> e, returned |-> <<>>]

\* item["name"] inside a set comprehension: what evaluating it for one item raises
ItemRaises(item) ==
    IF "name" \notin DOMAIN item THEN "KeyError"
    ELSE IF ~Hashable(item.name) THEN "TypeError"
    ELSE "none"

\* the first item, in list order, whose evaluation raises; 0 if none does
FirstRaising(items) ==
    IF \E i \in DOMAIN items : ItemRaises(items[i]) # "none"
    THEN CHOOSE i \in DOMAIN items :
            /\ ItemRaises(items[i]) # "none"
            /\ \A j \in 1..(i - 1) : ItemRaises(items[j]) = "none"
    ELSE 0

\* detected_names = {item["name"] for item in detected_items}
DetectedNamesMut(items) ==
    {items[i].name : i \in {j \in DOMAIN items : items[j].score >= 50}}

DetectedNames(items) == {items[i].name : i \in DOMAIN items}

\* have = ingredients & detected_names
HaveMut(ingredients, detected_names) ==
    {x \in ingredients : \E d \in detected_names : Lower(d) = x}

Have(ingredients, detected_names) == ingredients \cap detected_names

\* missing = ingredients - detected_names
MissingMut(ingredients, detected_names) == ingredients

Missing(ingredients, detected_names) == ingredients \ detected_names

\* if have:
IncludedMut(have) == TRUE

Included(have) == have # {}

\* "total": len(ingredients)
Total(ingredients) == Cardinality(ingredients)

\* the dict appended for one recipe
Suggestion(recipe, detected_names) ==
    LET ingredients == Range(recipe.ingredients)
        have        == Have(ingredients, detected_names)
        missing     == Missing(ingredients, detected_names)
    IN  [name        |-> recipe.name,
         ingredients |-> recipe.ingredients,
         steps       |-> recipe.steps,
         have        |-> SortedAsc(have),
         missing     |-> SortedAsc(missing),
         total       |-> Total(ingredients)]

\* for recipe in RECIPE_DB: ... suggestions.append(...)
RECURSIVE Collect(_, _)
Collect(db, detected_names) ==
    IF db = <<>> THEN <<>>
    ELSE LET ingredients == Range(Head(db).ingredients)
             have        == Have(ingredients, detected_names)
             rest        == Collect(Tail(db), detected_names)
         IN  IF Included(have)
             THEN <<Suggestion(Head(db), detected_names)>> \o rest
             ELSE rest

\* key=lambda r: len(r["have"])
SortKey(r) == Len(r.have)

\* sorted(suggestions, key=..., reverse=True): descending and stable,
\* elements with equal keys keep their original order
RECURSIVE InsertDesc(_, _)
InsertDesc(sorted, x) ==
    IF sorted = <<>> THEN <<x>>
    ELSE IF SortKey(Head(sorted)) >= SortKey(x)
         THEN <<Head(sorted)>> \o InsertDesc(Tail(sorted), x)
         ELSE <<x>> \o sorted

RECURSIVE SortedByHaveFrom(_, _)
SortedByHaveFrom(acc, suggestions) ==
    IF suggestions = <<>> THEN acc
    ELSE SortedByHaveFrom(InsertDesc(acc, Head(suggestions)), Tail(suggestions))

\* ascending and stable, then reversed: equal keys end in reverse order
SortedByHaveMut(suggestions) ==
    SortedByHaveFrom(<<>>, Reverse(suggestions))

SortedByHave(suggestions) == SortedByHaveFrom(<<>>, suggestions)

compute_recipe_suggestions(items) ==
    IF FirstRaising(items) # 0
    THEN Raised(ItemRaises(items[FirstRaising(items)]))
    ELSE Returned(SortedByHave(Collect(RECIPE_DB, DetectedNames(items))))

----------------------------------------------------------------------------
(* Callers of the matcher: the argument lists it is applied to *)

MaxItems == 2

WellFormedItems ==
    { Item(bread, 100), Item(bread, 5), Item(cheese, 100),
      Item(durian, 100), Item(Bread, 100) }

\* an item without a name, and items whose name is not a str
MalformedItems ==
    { [score |-> 100],
      Item(EmptyList, 100),
      Item(None, 100) }

ItemsOf(names, score) ==
    [i \in DOMAIN names |-> Item(names[i], score)]

\* every ingredient of the table, in the order of the specification's example
AllIngredients ==
    <<egg, cheese, butter, bread, garlic, tomato, lettuce, shrimp, pasta>>

ExampleInputs ==
    { ItemsOf(AllIngredients, 100),
      Reverse(ItemsOf(AllIngredients, 5)) \o ItemsOf(<<pasta, egg>>, 100),
      ItemsOf(<<garlic, egg, tomato>>, 100),
      ItemsOf(<<tomato, garlic, egg, garlic>>, 5),
      ItemsOf(<<cheese, butter, bread>>, 5),
      ItemsOf(<<Bread, CHEESE>>, 100),
      ItemsOf(<<shrimp, pasta, lettuce>>, 100) \o <<[score |-> 5]>> }

Inputs ==
    UNION {[1..k -> WellFormedItems \cup MalformedItems] : k \in 0..MaxItems}
        \cup ExampleInputs

WellFormed(items) ==
    \A i \in DOMAIN items :
        "name" \in DOMAIN items[i] /\ items[i].name.type = "str"

Named(items) == \A i \in DOMAIN items : "name" \in DOMAIN items[i]

\* the names an argument list carries
NamesIn(items) ==
    {items[i].name : i \in {j \in DOMAIN items : "name" \in DOMAIN items[j]}}

\* the names after the lower-casing the callers apply
LoweredNamesIn(items) == {Lower(n) : n \in NamesIn(items)}

MatcherInit ==
    /\ RECIPE_DB = Catalog
    /\ detected_items = <<>>
    /\ result = Returned(<<>>)
    /\ repeat = [calls |-> 0, same_names |-> FALSE, same_lowered |-> FALSE,
                 same_items |-> FALSE, same_result |-> FALSE]

Call(items) ==
    /\ detected_items' = items
    /\ result' = compute_recipe_suggestions(items)
    /\ RECIPE_DB' = RECIPE_DB
    /\ UNCHANGED <<OPENAI_API_KEY, request, gateway, response,
                   session, final_items, message>>
    /\ repeat' =
          [calls        |-> IF repeat.calls < 2 THEN repeat.calls + 1 ELSE 2,
           same_names   |-> /\ repeat.calls > 0
                            /\ Named(items) /\ Named(detected_items)
                            /\ NamesIn(items) = NamesIn(detected_items),
           same_lowered |-> /\ repeat.calls > 0
                            /\ WellFormed(items) /\ WellFormed(detected_items)
                            /\ LoweredNamesIn(items) = LoweredNamesIn(detected_items),
           same_items   |-> repeat.calls > 0 /\ items = detected_items,
           same_result  |-> repeat.calls > 0 /\ result' = result]

----------------------------------------------------------------------------
(* The HTTP endpoints of main.py *)

CONFIDENCE_THRESHOLD == 5

SUCCESS == 10000

\* os.getenv / os.environ.get: None when unset, else the str
Unset == "<unset>"

EnvValues == {Unset, "", "secret"}

Truthy(v) == v # Unset /\ v # ""

JSONResponse(content) == [status_code |-> 200, content |-> content]

HTTPException(status_code, detail) ==
    [status_code |-> status_code, content |-> [detail |-> detail]]

\* an exception no handler catches: the framework answers 500
InternalServerError == HTTPException(500, "Internal Server Error")

NoCallMade == [to |-> "nobody", sent |-> <<>>, reply |-> [net |-> "none"]]

\* what evaluating the list comprehension of call_clarifai raises for one
\* concept: the filter float(c["value"]) >= CONFIDENCE_THRESHOLD is evaluated
\* first, c["name"].lower() only for the concepts that pass it
ConceptRaises(c) ==
    IF "value" \notin DOMAIN c THEN "KeyError"
    ELSE IF ~(c.value >= CONFIDENCE_THRESHOLD) THEN "none"
    ELSE IF "name" \notin DOMAIN c THEN "KeyError"
    ELSE IF c.name.type # "str" THEN "AttributeError"
    ELSE "none"

FirstRaisingConcept(concepts) ==
    IF \E i \in DOMAIN concepts : ConceptRaises(concepts[i]) # "none"
    THEN CHOOSE i \in DOMAIN concepts :
            /\ ConceptRaises(concepts[i]) # "none"
            /\ \A j \in 1..(i - 1) : ConceptRaises(concepts[j]) = "none"
    ELSE 0

PassesThreshold(c) == c.value >= CONFIDENCE_THRESHOLD

\* {"name": c["name"].lower(), "score": float(c["value"])}
DetectedFrom(c) == Item(Lower(c.name), c.value)

RECURSIVE ItemsFromConcepts(_)
ItemsFromConcepts(concepts) ==
    IF concepts = <<>> THEN <<>>
    ELSE IF PassesThreshold(Head(concepts))
         THEN <<DetectedFrom(Head(concepts))>> \o ItemsFromConcepts(Tail(concepts))
         ELSE ItemsFromConcepts(Tail(concepts))

\* sorted(items, key=lambda x: x["score"], reverse=True): descending, stable
RECURSIVE InsertByScore(_, _)
InsertByScore(sorted, x) ==
    IF sorted = <<>> THEN <<x>>
    ELSE IF Head(sorted).score >= x.score
         THEN <<Head(sorted)>> \o InsertByScore(Tail(sorted), x)
         ELSE <<x>> \o sorted

RECURSIVE SortedByScoreFrom(_, _)
SortedByScoreFrom(acc, items) ==
    IF items = <<>> THEN acc
    ELSE SortedByScoreFrom(InsertByScore(acc, Head(items)), Tail(items))

SortedByScore(items) == SortedByScoreFrom(<<>>, items)

\* status.get("code") != 10000, with status = data.get("status", {})
StatusIsSuccess(data) ==
    /\ "status" \in DOMAIN data
    /\ "code" \in DOMAIN data.status
    /\ data.status.code = SUCCESS

\* call_clarifai, main.py 125-183, given CLARIFAI_PAT and what the
\* recognition gateway does with the request
call_clarifai(clarifai_pat, reply) ==
    IF ~Truthy(clarifai_pat) THEN Raised("RuntimeError")
    ELSE IF reply.net = "unreachable" THEN Raised("ConnectionError")
    ELSE IF reply.status_code >= 400 THEN Raised("RuntimeError")
    ELSE IF reply.json = "invalid" THEN Raised("JSONDecodeError")
    ELSE IF reply.json # "object" THEN Raised("AttributeError")
    ELSE IF ~StatusIsSuccess(reply.data) THEN Raised("RuntimeError")
    ELSE LET outputs == IF "outputs" \in DOMAIN reply.data
                        THEN reply.data.outputs ELSE <<>>
         IN  IF outputs = <<>> THEN Returned(<<>>)
             ELSE IF "data" \notin DOMAIN outputs[1] THEN Raised("KeyError")
             ELSE LET concepts == IF "concepts" \in DOMAIN outputs[1].data
                                  THEN outputs[1].data.concepts ELSE <<>>
                  IN  IF FirstRaisingConcept(concepts) # 0
                      THEN Raised(ConceptRaises(concepts[FirstRaisingConcept(concepts)]))
                      ELSE Returned(SortedByScore(ItemsFromConcepts(concepts)))

\* whether call_clarifai gets as far as requests.post
ClarifaiCalled(clarifai_pat) == Truthy(clarifai_pat)

AllowedContentTypes == {"image/jpeg", "image/png", "image/webp", "image/jpg"}

\* except RuntimeError / except Exception, main.py 234-237
AnalyzeError(raised) ==
    IF raised = "RuntimeError"
    THEN HTTPException(500, "RuntimeError")
    ELSE HTTPException(500, "Unexpected error")

\* analyze_image, main.py 219-239
analyze_image(content_type, read_ok, clarifai_pat, reply) ==
    IF content_type \notin AllowedContentTypes
    THEN HTTPException(400, "Please upload an image (JPEG/PNG/WEBP).")
    ELSE IF ~read_ok THEN HTTPException(400, "Could not read image")
    ELSE LET items == call_clarifai(clarifai_pat, reply)
         IN  IF items.raised # "none" THEN AnalyzeError(items.raised)
             ELSE JSONResponse([items |-> items.returned])

AnalyzeImage(content_type, read_ok, clarifai_pat, reply) ==
    /\ request.endpoint = "none"
    /\ request' = [endpoint |-> "/analyze-image/", content_type |-> content_type,
                   read_ok |-> read_ok, CLARIFAI_PAT |-> clarifai_pat]
    /\ gateway' =
          IF /\ content_type \in AllowedContentTypes
             /\ read_ok
             /\ ClarifaiCalled(clarifai_pat)
          THEN [to |-> "clarifai", sent |-> <<>>, reply |-> reply]
          ELSE NoCallMade
    /\ response' = analyze_image(content_type, read_ok, clarifai_pat, reply)
    /\ UNCHANGED <<OPENAI_API_KEY, RECIPE_DB, detected_items, result, repeat,
                    session, final_items, message>>

\* ingredient_list = [item.name.lower() for item in payload.items if item.name]
IngredientListMut(items) == [i \in DOMAIN items |-> Lower(items[i].name)]

RECURSIVE IngredientList(_)
IngredientList(items) ==
    IF items = <<>> THEN <<>>
    ELSE IF Head(items).name.val # <<>>
         THEN <<Lower(Head(items).name)>> \o IngredientList(Tail(items))
         ELSE IngredientList(Tail(items))

\* the try block of ai_recipes, main.py 282-303, and data.get("recipes", [])
AiAnswer(reply) ==
    IF reply.net # "ok" THEN Raised("AI error")
    ELSE IF reply.content = "none" THEN Raised("AI error")
    ELSE IF reply.content = "invalid" THEN Raised("Could not parse AI response as JSON")
    ELSE IF reply.content # "object" THEN Raised("AttributeError")
    ELSE IF "recipes" \in DOMAIN reply.data THEN Returned(reply.data.recipes)
    ELSE Returned(<<>>)

\* where ai_recipes takes its recipes from: the generation gateway
RecipesForMut(items, reply) == compute_recipe_suggestions(items)

RecipesFor(items, reply) == AiAnswer(reply)

\* whether ai_recipes gets as far as client.chat.completions.create
OpenAICalled(items) ==
    Truthy(OPENAI_API_KEY) /\ IngredientList(items) # <<>>

\* ai_recipes, main.py 242-307; a returned dict is sent with status 200
ai_recipes(items, reply) ==
    IF ~Truthy(OPENAI_API_KEY)
    THEN HTTPException(500, "OPENAI_API_KEY not configured")
    ELSE IF IngredientList(items) = <<>>
    THEN HTTPException(400, "No ingredients provided")
    ELSE LET answer == RecipesFor(items, reply)
         IN  IF answer.raised = "AttributeError" THEN InternalServerError
             ELSE IF answer.raised # "none" THEN HTTPException(500, answer.raised)
             ELSE JSONResponse([suggestions |-> answer.returned])

AiRecipes(items, reply) ==
    /\ request.endpoint = "none"
    /\ request' = [endpoint |-> "/ai-recipes/", items |-> items]
    /\ gateway' =
          IF OpenAICalled(items)
          THEN [to |-> "openai", sent |-> IngredientList(items), reply |-> reply]
          ELSE NoCallMade
    /\ response' = ai_recipes(items, reply)
    /\ UNCHANGED <<OPENAI_API_KEY, RECIPE_DB, detected_items, result, repeat,
                    session, final_items, message>>

\* the response is sent; nothing of the request is kept
Finish ==
    /\ request.endpoint # "none"
    /\ request' = [endpoint |-> "none"]
    /\ gateway' = NoCallMade
    /\ response' = [status_code |-> 0, content |-> [detail |-> ""]]
    /\ UNCHANGED <<OPENAI_API_KEY, RECIPE_DB, detected_items, result, repeat,
                    session, final_items, message>>

\* what the recognition gateway may do with a request
ClarifaiReply(net, status_code, json, data) ==
    [net |-> net, status_code |-> status_code, json |-> json, data |-> data]

\* a JSON object with none of the keys the code looks up
Irrelevant == [id |-> "x"]

StatusOk == [code |-> SUCCESS]

MaxConcepts == 2

Concept(name, value) == [name |-> name, value |-> value]

Concepts ==
    { Concept(bread, 90), Concept(Bread, 5), Concept(Str(<<>>), 90),
      Concept(cheese, 150), Concept(durian, 4),
      [value |-> 90], [name |-> bread], Concept(None, 90) }

ConceptLists == UNION {[1..k -> Concepts] : k \in 0..MaxConcepts}

ClarifaiData ==
    { Irrelevant,
      [status |-> [code |-> 10020]],
      [status |-> [description |-> "Failure"]],
      [status |-> StatusOk],
      [status |-> StatusOk, outputs |-> <<>>],
      [status |-> StatusOk, outputs |-> <<Irrelevant>>],
      [status |-> StatusOk, outputs |-> <<[data |-> Irrelevant]>>] }
    \cup { [status |-> StatusOk, outputs |-> <<[data |-> [concepts |-> cs]]>>] :
              cs \in ConceptLists }

ClarifaiReplies ==
    { ClarifaiReply("unreachable", 0, "none", Irrelevant),
      ClarifaiReply("ok", 401, "object", [status |-> [code |-> 11102]]),
      ClarifaiReply("ok", 503, "invalid", Irrelevant),
      ClarifaiReply("ok", 200, "invalid", Irrelevant),
      ClarifaiReply("ok", 200, "array", Irrelevant) }
    \cup { ClarifaiReply("ok", 200, "object", d) : d \in ClarifaiData }

\* what the generation gateway may do with a request
OpenAIReply(net, content, data) ==
    [net |-> net, content |-> content, data |-> data]

MaxRecipes == 2

AiRecipeObjects ==
    { [name |-> "Cheese Toast", ingredients |-> <<bread, cheese>>,
       steps |-> <<"Toast the bread.", "Add cheese.">>,
       have |-> <<bread>>, missing |-> <<cheese>>],
      [name |-> "Soup"] }

AiRecipeLists == UNION {[1..k -> AiRecipeObjects] : k \in 0..MaxRecipes}

OpenAIReplies ==
    { OpenAIReply("error", "none", Irrelevant),
      OpenAIReply("ok", "none", Irrelevant),
      OpenAIReply("ok", "invalid", Irrelevant),
      OpenAIReply("ok", "array", Irrelevant),
      OpenAIReply("ok", "object", Irrelevant) }
    \cup { OpenAIReply("ok", "object", [recipes |-> rs]) : rs \in AiRecipeLists }

MaxPayload == 2

\* items that pass the validation of RecipeAIRequest: name is a str
PayloadItems == {Item(bread, 100), Item(Bread, 5), Item(Str(<<>>), 100)}

Payloads == UNION {[1..k -> PayloadItems] : k \in 0..MaxPayload}

ContentTypes == {"image/jpeg", "text/plain"}

----------------------------------------------------------------------------
(* The Streamlit page, streamlit_app.py (the handlers of its two buttons) *)

\* CONFIDENCE_THRESHOLD of streamlit_app.py
UI_CONFIDENCE_THRESHOLD == 5

\* str(x)
PyStr(v) ==
    IF v.type = "str" THEN v
    ELSE IF v.type = "NoneType" THEN Str(<<78, 111, 110, 101>>)
    ELSE Str(<<91, 93>>)

\* bool(x) of a str, None or list
PyTruthy(v) == v.val # <<>>

\* the list comprehension of call_backend_analyze, lines 32-39
RECURSIVE NormItems(_)
NormItems(items) ==
    IF items = <<>> THEN <<>>
    ELSE LET it == Head(items)
         IN  IF "name" \in DOMAIN it /\ PyTruthy(it.name)
             THEN <<Item(Lower(PyStr(it.name)),
                         IF "score" \in DOMAIN it THEN it.score ELSE 0)>>
                     \o NormItems(Tail(items))
             ELSE NormItems(Tail(items))

\* call_backend_analyze, lines 16-42, given what the POST to the backend gives
call_backend_analyze(backend_up, resp) ==
    IF ~backend_up THEN Raised("ConnectionError")
    ELSE IF resp.status_code >= 400 THEN Raised("HTTPError")
    ELSE LET items == IF "items" \in DOMAIN resp.content
                      THEN resp.content.items ELSE <<>>
         IN  Returned(SortedByScore(NormItems(items)))

\* feedback, main.py 310-320: the body must validate as RecipeFeedbackRequest,
\* whose recipe_name and liked have no default
feedback(payload) ==
    IF {"recipe_name", "liked"} \subseteq DOMAIN payload
    THEN JSONResponse([status |-> "ok"])
    ELSE HTTPException(422, "Unprocessable Entity")

\* the URL call_backend_recipes posts to: BACKEND_SUGGEST_URL is assigned
\* twice, lines 11 and 12, and keeps the second value
BACKEND_SUGGEST_URL == "/feedback/"

\* the backend's answer to a POST of a JSON body to one of its URLs
Post(url, body) ==
    IF url = "/feedback/" THEN feedback(body)
    ELSE HTTPException(404, "Not Found")

\* call_backend_recipes, lines 45-65
call_backend_recipes(backend_up, items) ==
    IF ~backend_up THEN Raised("ConnectionError")
    ELSE LET resp == Post(BACKEND_SUGGEST_URL, [items |-> items])
         IN  IF resp.status_code >= 400 THEN Raised("HTTPError")
             ELSE IF "suggestions" \in DOMAIN resp.content
                  THEN Returned(resp.content.suggestions)
                  ELSE Returned(<<>>)

\* str.split(",")
RECURSIVE SplitFrom(_, _)
SplitFrom(s, current) ==
    IF s = <<>> THEN <<current>>
    ELSE IF Head(s) = 44 THEN <<current>> \o SplitFrom(Tail(s), <<>>)
    ELSE SplitFrom(Tail(s), Append(current, Head(s)))

Split(s) == SplitFrom(s, <<>>)

Whitespace == {9, 10, 13, 32}

\* str.strip()
RECURSIVE StripLeft(_)
StripLeft(s) ==
    IF s # <<>> /\ Head(s) \in Whitespace THEN StripLeft(Tail(s)) ELSE s

Strip(s) == Reverse(StripLeft(Reverse(StripLeft(s))))

\* extras = [s.strip().lower() for s in raw.split(",") if s.strip()]
RECURSIVE ExtrasFrom(_)
ExtrasFrom(parts) ==
    IF parts = <<>> THEN <<>>
    ELSE IF Strip(Head(parts)) # <<>>
         THEN <<Lower(Str(Strip(Head(parts))))>> \o ExtrasFrom(Tail(parts))
         ELSE ExtrasFrom(Tail(parts))

Extras(extra_ingredients_raw) ==
    IF Strip(extra_ingredients_raw) # <<>>
    THEN ExtrasFrom(Split(extra_ingredients_raw))
    ELSE <<>>

\* final_items of the "Generate recipes" handler, lines 190-205
SelectedItems(filtered_items, selected_names) ==
    SelectSeq(filtered_items, LAMBDA item : item.name \in selected_names)

ManualItem(name) == Item(name, 100)

FinalItems(filtered_items, selected_names, extra_ingredients_raw) ==
    SelectedItems(filtered_items, selected_names)
        \o [i \in DOMAIN Extras(extra_ingredients_raw) |->
               ManualItem(Extras(extra_ingredients_raw)[i])]

NoSession ==
    [has_detected_items |-> FALSE, detected_items |-> <<>>,
     has_suggestions |-> FALSE, suggestions |-> <<>>]

UiInit ==
    /\ session = NoSession
    /\ final_items = <<>>
    /\ message = "none"

\* the "Analyze image" button, lines 121-152; the backend is main.py
AnalyzeClick(backend_up, resp) ==
    LET detected == call_backend_analyze(backend_up, resp)
        filtered == SelectSeq(detected.returned,
                       LAMBDA item : item.score >= UI_CONFIDENCE_THRESHOLD)
    IN  /\ IF detected.raised # "none"
           THEN message' = "error: analysis" /\ session' = session
           ELSE IF detected.returned = <<>>
           THEN message' = "warning: nothing detected" /\ session' = session
           ELSE IF filtered = <<>>
           THEN message' = "warning: low confidence" /\ session' = session
           ELSE /\ message' = "success: detected"
                /\ session' = [has_detected_items |-> TRUE,
                               detected_items |-> filtered,
                               has_suggestions |-> FALSE,
                               suggestions |-> <<>>]
        /\ UNCHANGED <<final_items, RECIPE_DB, detected_items, result, repeat,
                       OPENAI_API_KEY, request, gateway, response>>

\* the "Generate recipes" button, lines 189-217
GenerateClick(backend_up, selected_names, extra_ingredients_raw) ==
    /\ session.has_detected_items
    /\ LET items == FinalItems(session.detected_items, selected_names,
                               extra_ingredients_raw)
           suggestions == call_backend_recipes(backend_up, items)
       IN  /\ final_items' = items
           /\ IF items = <<>>
              THEN message' = "warning: no ingredients" /\ session' = session
              ELSE IF suggestions.raised # "none"
              THEN message' = "error: recipes" /\ session' = session
              ELSE /\ message' = "none"
                   /\ session' = [session EXCEPT
                                     !.has_suggestions = TRUE,
                                     !.suggestions = suggestions.returned]
    /\ UNCHANGED <<RECIPE_DB, detected_items, result, repeat,
                   OPENAI_API_KEY, request, gateway, response>>

\* what /analyze-image/ may answer to the upload of an image
AnalyzeResponses ==
    { analyze_image("image/jpeg", TRUE, clarifai_pat, reply) :
         clarifai_pat \in EnvValues, reply \in ClarifaiReplies }

\* what the user may type into "Add more ingredients manually"
RawTexts ==
    { <<>>,
      <<32, 32>>,
      <<83, 111, 121, 32, 83, 97, 117, 99, 101, 44, 32, 101, 103, 103, 115>>,
      <<44, 44, 32, 75, 69, 84, 67, 72, 85, 80, 32, 44>> }

----------------------------------------------------------------------------
(* Specifications *)

vars == <<RECIPE_DB, detected_items, result, repeat,
          OPENAI_API_KEY, request, gateway, response,
          session, final_items, message>>

HttpIdle ==
    /\ request = [endpoint |-> "none"]
    /\ gateway = NoCallMade
    /\ response = [status_code |-> 0, content |-> [detail |-> ""]]

\* the matcher and its callers
Init ==
    /\ MatcherInit
    /\ OPENAI_API_KEY = Unset
    /\ HttpIdle
    /\ UiInit

Next ==
    \E items \in Inputs :
        Call(items)

Spec == Init /\ [][Next]_vars

\* the HTTP server: one request at a time, nothing kept between requests
HttpInit ==
    /\ MatcherInit
    /\ OPENAI_API_KEY \in EnvValues
    /\ HttpIdle
    /\ UiInit

HttpNext ==
    \/ \E content_type \in ContentTypes, read_ok \in BOOLEAN,
          clarifai_pat \in EnvValues, reply \in ClarifaiReplies :
            AnalyzeImage(content_type, read_ok, clarifai_pat, reply)
    \/ \E items \in Payloads, reply \in OpenAIReplies :
            AiRecipes(items, reply)
    \/ Finish

SpecHttp == HttpInit /\ [][HttpNext]_vars

\* the page and the backend behind it
UiNext ==
    \/ \E backend_up \in BOOLEAN, resp \in AnalyzeResponses :
            AnalyzeClick(backend_up, resp)
    \/ \E backend_up \in BOOLEAN,
          selected_names \in SUBSET NamesIn(session.detected_items),
          extra_ingredients_raw \in RawTexts :
            GenerateClick(backend_up, selected_names, extra_ingredients_raw)

SpecUi == Init /\ [][UiNext]_vars

----------------
(* Properties of compute_recipe_suggestions *)

Suggestions == result.returned

AllCatalogIngredients ==
    UNION {Range(RECIPE_DB[k].ingredients) : k \in DOMAIN RECIPE_DB}

CatalogIndex(name) == CHOOSE k \in DOMAIN RECIPE_DB : RECIPE_DB[k].name = name

NamesOf(suggestions) == [i \in DOMAIN suggestions |-> suggestions[i].name]

StrictlyAscending(seq) ==
    \A i \in DOMAIN seq : \A j \in DOMAIN seq : i < j => StrLess(seq[i], seq[j])

\* C1: in every returned suggestion, have and missing together are exactly
\* the recipe's ingredients, and they share no ingredient.
C1_HaveMissingPartition ==
    result.raised = "none" =>
        \A i \in DOMAIN Suggestions :
            LET S == Suggestions[i]
            IN  /\ Range(S.have) \cup Range(S.missing) = Range(S.ingredients)
                /\ Range(S.have) \cap Range(S.missing) = {}

C1_Witness ==
    /\ repeat.calls > 0
    /\ \E i \in DOMAIN Suggestions :
          Suggestions[i].have # <<>> /\ Suggestions[i].missing # <<>>

\* C2: for a list of detected items (every item carries a str name) the call
\* returns without an error; a recipe of the table appears exactly once when
\* one of its ingredients is among the detected names and not at all
\* otherwise; every returned suggestion has a non-empty have; without any
\* matching name (the empty list included) the result is the empty list.
C2_IncludedIffOverlap ==
    WellFormed(detected_items) =>
        /\ result.raised = "none"
        /\ \A k \in DOMAIN RECIPE_DB :
              Cardinality({i \in DOMAIN Suggestions :
                              Suggestions[i].name = RECIPE_DB[k].name})
                 = IF Range(RECIPE_DB[k].ingredients) \cap NamesIn(detected_items) # {}
                   THEN 1 ELSE 0
        /\ \A i \in DOMAIN Suggestions : Suggestions[i].have # <<>>
        /\ Len(Suggestions) <= Len(RECIPE_DB)
        /\ (NamesIn(detected_items) \cap AllCatalogIngredients = {}
               => Suggestions = <<>>)

C2_Witness ==
    /\ repeat.calls > 0
    /\ WellFormed(detected_items)
    /\ durian \in NamesIn(detected_items)
    /\ Len(Suggestions) \in 1..(Len(RECIPE_DB) - 1)

\* C3: the returned list is ordered by the number of have ingredients,
\* descending; suggestions with equally many keep the order of their recipes
\* in the table; when every ingredient of the table is detected, all four
\* recipes are returned with nothing missing, in the order Shrimp Pasta,
\* Tomato Mozzarella Sandwich, Simple Cheese Omelette, Garlic Bread.
C3_OrderedByHaveThenCatalog ==
    result.raised = "none" =>
        /\ \A i \in DOMAIN Suggestions : \A j \in DOMAIN Suggestions :
              i < j =>
                 \/ Len(Suggestions[i].have) > Len(Suggestions[j].have)
                 \/ /\ Len(Suggestions[i].have) = Len(Suggestions[j].have)
                    /\ CatalogIndex(Suggestions[i].name)
                          < CatalogIndex(Suggestions[j].name)
        /\ (AllCatalogIngredients \subseteq NamesIn(detected_items) =>
              /\ NamesOf(Suggestions) =
                    <<"Shrimp Pasta", "Tomato Mozzarella Sandwich",
                      "Simple Cheese Omelette", "Garlic Bread">>
              /\ \A i \in DOMAIN Suggestions : Suggestions[i].missing = <<>>)

C3_Witness ==
    /\ repeat.calls > 0
    /\ AllCatalogIngredients \subseteq NamesIn(detected_items)
    /\ Len(Suggestions) = Len(RECIPE_DB)

\* C4: after any sequence of calls the recipe table is as it was written, and
\* a call whose argument carries the same set of names as the call before it
\* (in any order, with any duplicates and scores, and after any earlier
\* calls) returns an equal result.
C4_PureInNames ==
    /\ RECIPE_DB = Catalog
    /\ (repeat.same_names => repeat.same_result)

C4_Witness ==
    /\ repeat.same_names
    /\ ~repeat.same_items
    /\ Len(detected_items) > Cardinality(NamesIn(detected_items))
    /\ Suggestions # <<>>

\* C5: in every returned suggestion have and missing are strictly ascending
\* (so sorted and duplicate-free), and total is the number of ingredients of
\* the recipe, which is len(have) + len(missing); for the names bread and
\* cheese the Tomato Mozzarella Sandwich has have = [bread, cheese],
\* missing = [lettuce, tomato] and total = 4.
C5_SortedHaveMissingTotal ==
    result.raised = "none" =>
        /\ \A i \in DOMAIN Suggestions :
              LET S == Suggestions[i]
              IN  /\ StrictlyAscending(S.have)
                  /\ StrictlyAscending(S.missing)
                  /\ S.total = Len(RECIPE_DB[CatalogIndex(S.name)].ingredients)
                  /\ S.total = Len(S.have) + Len(S.missing)
        /\ (NamesIn(detected_items) = {bread, cheese} =>
              \E i \in DOMAIN Suggestions :
                  /\ Suggestions[i].name = "Tomato Mozzarella Sandwich"
                  /\ Suggestions[i].have = <<bread, cheese>>
                  /\ Suggestions[i].missing = <<lettuce, tomato>>
                  /\ Suggestions[i].total = 4)

C5_Witness ==
    /\ repeat.calls > 0
    /\ Named(detected_items)
    /\ NamesIn(detected_items) = {bread, cheese}
    /\ Len(Suggestions) > 1

HasUpperCase(v) == v.type = "str" /\ Lower(v) # v

\* C7 as claimed: two calls whose names are equal up to letter case return
\* equal results.
C7_CaseInsensitive ==
    repeat.same_lowered => repeat.same_result

\* C7, amended: names are compared exactly as given, letter case included:
\* every have ingredient is literally one of the detected names, so a
\* detected name with an upper-case letter matches no ingredient of the
\* table; and the scores never influence the result.
C7_ExactNamesScoresIgnored ==
    /\ result.raised = "none" =>
          \A i \in DOMAIN Suggestions :
              Range(Suggestions[i].have) \subseteq NamesIn(detected_items)
    /\ (WellFormed(detected_items)
          /\ (\A n \in NamesIn(detected_items) : HasUpperCase(n)))
          => result = Returned(<<>>)
    /\ (repeat.same_names /\ ~repeat.same_items) => repeat.same_result

C7_Witness ==
    /\ repeat.same_lowered
    /\ ~repeat.same_names
    /\ ~repeat.same_result
    /\ \A n \in NamesIn(detected_items) : HasUpperCase(n)

AllMalformed(items) ==
    \A i \in DOMAIN items :
        "name" \notin DOMAIN items[i] \/ items[i].name.type # "str"

\* C8 as claimed: no call ends in an error, and an empty argument or one
\* made of malformed items returns the empty list.
C8_MalformedGivesEmpty ==
    /\ result.raised = "none"
    /\ AllMalformed(detected_items) => Suggestions = <<>>

----------------------------------------------------------------------------
(* Properties of the endpoints *)

AiRecipesAnswered == request.endpoint = "/ai-recipes/"

AnalyzeAnswered == request.endpoint = "/analyze-image/"

Success == response.status_code = 200

\* C6 as claimed: a success answer of /ai-recipes/ carries the matcher's
\* suggestions for the posted items, computed from the recipe table, and no
\* call to the generation gateway was made for it.
C6_AnswersFromMatcher ==
    (AiRecipesAnswered /\ Success) =>
        /\ response =
              JSONResponse([suggestions |->
                  compute_recipe_suggestions(request.items).returned])
        /\ gateway.to = "nobody"

\* C6, amended: a success answer of /ai-recipes/ to the posted items is
\* {"suggestions": R}, R being the "recipes" of the JSON object the
\* generation gateway replied with (the empty list when it has none), passed
\* through unchanged; the gateway was called with the lower-cased non-empty
\* names, and the recipe table is not consulted.
C6_AnswersFromGateway ==
    (AiRecipesAnswered /\ Success) =>
        /\ gateway.to = "openai"
        /\ gateway.sent = IngredientList(request.items)
        /\ gateway.sent # <<>>
        /\ gateway.reply.net = "ok" /\ gateway.reply.content = "object"
        /\ response.content =
              [suggestions |->
                  IF "recipes" \in DOMAIN gateway.reply.data
                  THEN gateway.reply.data.recipes ELSE <<>>]

C6_Witness ==
    /\ AiRecipesAnswered /\ Success
    /\ response.content.suggestions # <<>>
    /\ response.content.suggestions
          # compute_recipe_suggestions(request.items).returned
    /\ compute_recipe_suggestions(request.items).returned # <<>>

\* the failures at the boundary to the recognition gateway that a request
\* of /analyze-image/ met
ClarifaiFailure ==
    /\ AnalyzeAnswered
    /\ request.content_type \in AllowedContentTypes /\ request.read_ok
    /\ \/ ~Truthy(request.CLARIFAI_PAT)
       \/ gateway.reply.net = "unreachable"
       \/ gateway.reply.status_code >= 400
       \/ gateway.reply.json # "object"
       \/ ~StatusIsSuccess(gateway.reply.data)

\* the failures at the boundary to the generation gateway that a request of
\* /ai-recipes/ met: no key, no reply, a reply that is not a JSON object, or
\* a JSON object without the "recipes" asked for
OpenAIFailure ==
    /\ AiRecipesAnswered
    /\ \/ ~Truthy(OPENAI_API_KEY)
       \/ /\ gateway.to = "openai"
          /\ \/ gateway.reply.net # "ok"
             \/ gateway.reply.content # "object"
             \/ "recipes" \notin DOMAIN gateway.reply.data

\* C9 as claimed: a request that met a failure at the boundary to a gateway
\* is answered with an error, never with a success.
C9_BoundaryFailuresAreErrors ==
    (ClarifaiFailure \/ OpenAIFailure) => response.status_code >= 400

NoNonEmptyName(items) == \A i \in DOMAIN items : items[i].name.val = <<>>

\* C11: with the OpenAI key configured, a payload of /ai-recipes/ without any
\* item of non-empty name (the empty list included) is answered with 400
\* "No ingredients provided"; without the key every payload is answered with
\* 500; in both cases no call to the generation gateway is made.
C11_NoIngredientsOrNoKey ==
    AiRecipesAnswered =>
        /\ (Truthy(OPENAI_API_KEY) /\ NoNonEmptyName(request.items)) =>
              /\ response = HTTPException(400, "No ingredients provided")
              /\ gateway = NoCallMade
        /\ ~Truthy(OPENAI_API_KEY) =>
              /\ response.status_code = 500
              /\ gateway = NoCallMade

C11_Witness ==
    /\ AiRecipesAnswered
    /\ Truthy(OPENAI_API_KEY)
    /\ request.items # <<>>
    /\ NoNonEmptyName(request.items)
    /\ response.status_code = 400

----------------------------------------------------------------------------
(* Properties of the page *)

IsDetectedItem(item) ==
    /\ item.name.type = "str"
    /\ item.name.val # <<>>
    /\ Lower(item.name) = item.name
    /\ item.score >= 0 /\ item.score <= 100

\* C10 as claimed: every item kept in the session after an analysis and every
\* item of the list sent to the recipe step has a lower-cased, non-empty name
\* and a score in [0,1].
C10_ItemsAreDetectedItems ==
    /\ \A i \in DOMAIN session.detected_items :
          IsDetectedItem(session.detected_items[i])
    /\ \A i \in DOMAIN final_items : IsDetectedItem(final_items[i])

====
